---- MODULE Spec2Model ----
(***************************************************************************)
(* Model of GameDatabase (src/src/database/interface.rs): the relational   *)
(* catalog of games, their save paths and executables per operating        *)
(* system, and the history of save snapshots.                              *)
(*                                                                         *)
(* The six tables are sequences of rows in insertion order.  A method is an *)
(* operator from the database and its arguments to a result and a          *)
(* database, built from one operator per SQL statement.  A method that     *)
(* runs one statement or one transaction is one action; a listing method,  *)
(* which runs its statements without a transaction, is one action for the  *)
(* statement that loads the rows and one per iteration of its loop, and    *)
(* other callers may commit in between.  The storage engine may fail any   *)
(* statement: the failing step is an input of the action (fault), "none"   *)
(* when the engine works.                                                  *)
(***************************************************************************)
EXTENDS Integers, Sequences, FiniteSets, TLC

VARIABLES game_metadata, game_alt_name, game_path, game_executable,
          game_save, file_hash, last, added_games, added_saves,
          applied, opened, calls, write_lock, pool

tables == <<game_metadata, game_alt_name, game_path, game_executable,
            game_save, file_hash>>
vars == <<game_metadata, game_alt_name, game_path, game_executable,
          game_save, file_hash, last, added_games, added_saves,
          applied, opened, calls, write_lock, pool>>

(***************************************************************************)
(* Bounds of the model.                                                    *)
(***************************************************************************)
MaxGames == 2
MaxAlt == 2
MaxAliasRows == 2
MaxLocations == 2
MaxSaves == 2
MaxFiles == 2
MaxRows == 2
MaxMigrations == 2

(***************************************************************************)
(* Values the callers pass.                                                *)
(***************************************************************************)
None == <<>>
Some(v) == <<v>>
IsSome(o) == o # <<>>
Unwrap(o) == o[1]

Ok(v) == [tag |-> "Ok", val |-> v]
Err(e) == [tag |-> "Err", val |-> e]
Panic == [tag |-> "Panic", val |-> "called Option::unwrap() on a None value"]

SeqsUpTo(S, n) == UNION {[1..k -> S] : k \in 0..n}
SeqToSet(s) == {s[i] : i \in 1..Len(s)}

Names == {"Foo", "F"}
\* The games the callers add: one with a steam app id, one without.
Titles == {[default_name |-> "Foo", steam_appid |-> Some("10")],
           [default_name |-> "F", steam_appid |-> None]}
GameMetadataCreate ==
    {[known_name |-> known_name,
      steam_appid |-> title.steam_appid,
      default_name |-> title.default_name] :
        known_name \in SeqsUpTo(Names, MaxAlt), title \in Titles}
GameIds == 1..MaxGames
OwnerIds == {1, 2}

OS == {"Windows", "Linux"}
Locations == {"/save/foo", "/save/bar"}
SavePathCreate == [path : Locations, operating_system : OS]
ExecutableCreate == [executable : Locations, operating_system : OS]

Uuids == {"abc", "def"}
PathIds == {7, 8}
FileHash == [relative_path : {"s1.dat", "s2.dat"}, hash : {"h1"}]
FilesHash == SeqsUpTo(FileHash, MaxFiles)
Times == {[secs |-> 100, nanos |-> 5]}

(***************************************************************************)
(* The database a method works on, and the storage engine.                 *)
(***************************************************************************)
DB == [game_metadata |-> game_metadata, game_alt_name |-> game_alt_name,
       game_path |-> game_path, game_executable |-> game_executable,
       game_save |-> game_save, file_hash |-> file_hash]

ConnectionError == Err("ConnectionError")
StorageError == Err("StorageError")
NotFound == Err("NotFound")

\* self.pool.get()? : the call ends with the pool's error when no connection
\* can be borrowed, before any statement runs.
PoolGet(db, fault, rest) ==
    IF fault = "pool" THEN [res |-> ConnectionError, db |-> db] ELSE rest

\* connection.immediate_transaction(body): BEGIN IMMEDIATE, then the body;
\* COMMIT when the body returns Ok, ROLLBACK to the state at BEGIN when it
\* returns Err or when COMMIT fails.
ImmediateTransaction(db, fault, body) ==
    IF fault = "begin" THEN [res |-> StorageError, db |-> db]
    ELSE IF body.res.tag = "Err" THEN [res |-> body.res, db |-> db]
    ELSE IF fault = "commit" THEN [res |-> StorageError, db |-> db]
    ELSE body

\* The rowid the storage assigns to a row inserted with id: None.
MaxOf(S) == CHOOSE m \in S : \A x \in S : x <= m
RowIds(table) == {Unwrap(table[i].id) : i \in {j \in 1..Len(table) : IsSome(table[j].id)}}
AssignRowId(table) == IF RowIds(table) = {} THEN 1 ELSE MaxOf(RowIds(table)) + 1

(***************************************************************************)
(* add_game_metadata                                                       *)
(***************************************************************************)
\* The row inserted with an id the caller fixes instead of id: None.
InsertGameMetadataFixedId(db, rec) ==
    [db EXCEPT !.game_metadata =
        Append(@, [id |-> Some(1),
                   steam_appid |-> rec.steam_appid,
                   default_name |-> rec.default_name])]

InsertGameMetadata(db, rec) ==
    [db EXCEPT !.game_metadata =
        Append(@, [id |-> Some(AssignRowId(@)),
                   steam_appid |-> rec.steam_appid,
                   default_name |-> rec.default_name])]

\* The id lookup ordered ascending: the oldest row instead of the newest.
MinOf(S) == CHOOSE m \in S : \A x \in S : m <= x
SelectInsertedIdAsc(db) ==
    IF db.game_metadata = <<>> THEN NotFound
    ELSE IF RowIds(db.game_metadata) # {} /\ \A i \in 1..Len(db.game_metadata) :
                                                IsSome(db.game_metadata[i].id)
         THEN Ok(Some(MinOf(RowIds(db.game_metadata))))
    ELSE Ok(None)

\* select id order by id desc, first: NULL sorts below every integer.
SelectInsertedId(db) ==
    IF db.game_metadata = <<>> THEN NotFound
    ELSE IF RowIds(db.game_metadata) = {} THEN Ok(None)
    ELSE Ok(Some(MaxOf(RowIds(db.game_metadata))))

InsertAltNames(db, known_name, inserted_id) ==
    [db EXCEPT !.game_alt_name =
        @ \o [i \in 1..Len(known_name) |->
                [name |-> known_name[i], game_metadata_id |-> inserted_id]]]

AddGameMetadataBody(db, rec, fault) ==
    IF fault = "insert_metadata" THEN [res |-> StorageError, db |-> db]
    ELSE LET db1 == InsertGameMetadata(db, rec)
             inserted_id == SelectInsertedId(db1)
         IN IF fault = "select_id" THEN [res |-> StorageError, db |-> db1]
            ELSE IF inserted_id.tag = "Err" THEN [res |-> inserted_id, db |-> db1]
            ELSE IF ~IsSome(inserted_id.val)
                 THEN [res |-> Err("Failed to get inserted id"), db |-> db1]
            ELSE IF fault = "insert_alt_name" /\ rec.known_name # <<>>
                 THEN [res |-> StorageError, db |-> db1]
            ELSE [res |-> Ok(<<>>),
                  db |-> InsertAltNames(db1, rec.known_name, Unwrap(inserted_id.val))]

\* The statements run without a transaction around them.
add_game_metadata_autocommit(db, rec, fault) ==
    PoolGet(db, fault, AddGameMetadataBody(db, rec, fault))

add_game_metadata(db, rec, fault) ==
    PoolGet(db, fault,
        ImmediateTransaction(db, fault, AddGameMetadataBody(db, rec, fault)))

AddGameMetadataFaults ==
    {"none", "pool", "begin", "insert_metadata", "select_id", "insert_alt_name", "commit"}

(***************************************************************************)
(* get_game_metadata_by_name, get_game_metadata_by_id, get_games_metadata  *)
(***************************************************************************)
\* select name from game_alt_name where game_metadata_id = id
SelectAltNames(db, id) ==
    LET Match(r) == r.game_metadata_id = id
        rows == SelectSeq(db.game_alt_name, Match)
    IN [i \in 1..Len(rows) |-> rows[i].name]

\* The record built without the id of its row.
GameMetadataOfNoId(db, id, known_name, row) ==
    [id |-> None,
     metadata |-> [known_name |-> known_name,
                   steam_appid |-> row.steam_appid,
                   default_name |-> row.default_name]]

GameMetadataOf(db, id, known_name, row) ==
    [id |-> id,
     metadata |-> [known_name |-> known_name,
                   steam_appid |-> row.steam_appid,
                   default_name |-> row.default_name]]

\* The loop of the two listing methods: one alias query per loaded row, after
\* unwrapping the row's id.
HydrateGames(db, db_games, fault) ==
    IF db_games = <<>> THEN Ok(<<>>)
    ELSE IF ~IsSome(db_games[1].id) THEN Panic
    ELSE IF fault = "select_alt_name" THEN StorageError
    ELSE IF \E i \in 1..Len(db_games) : ~IsSome(db_games[i].id) THEN Panic
    ELSE Ok([i \in 1..Len(db_games) |->
                GameMetadataOf(db, db_games[i].id,
                               SelectAltNames(db, Unwrap(db_games[i].id)),
                               db_games[i])])

\* One iteration of the loop of the two listing methods: the id of the loaded
\* row is unwrapped, then its alias rows are queried on the database as it is
\* when the statement runs.
HydrateGame(db, db_game, fault) ==
    IF ~IsSome(db_game.id) THEN Panic
    ELSE IF fault = "select_alt_name" THEN StorageError
    ELSE Ok(GameMetadataOf(db, db_game.id,
                           SelectAltNames(db, Unwrap(db_game.id)), db_game))

\* The filter matching an alt-name as well as the default name.
SelectGamesByAnyName(db, target_name) ==
    LET Match(r) ==
            \/ r.default_name = target_name
            \/ target_name \in SeqToSet(SelectAltNames(db, Unwrap(r.id)))
    IN SelectSeq(db.game_metadata, Match)

\* select * from game_metadata where default_name = target_name
SelectGamesByName(db, target_name) ==
    LET Match(r) == r.default_name = target_name
    IN SelectSeq(db.game_metadata, Match)

\* The method when no other caller commits between its statements.
get_game_metadata_by_name(db, target_name, fault) ==
    PoolGet(db, fault,
        IF fault = "select_metadata" THEN [res |-> StorageError, db |-> db]
        ELSE [res |-> HydrateGames(db, SelectGamesByName(db, target_name), fault),
              db |-> db])

\* The row read with first() and no optional(): a missing row is an error.
GetGameMetadataByIdBodyFirst(db, target_id, fault) ==
    IF fault = "select_metadata" THEN [res |-> StorageError, db |-> db]
    ELSE LET Match(r) == r.id = Some(target_id)
             found == SelectSeq(db.game_metadata, Match)
         IN IF found = <<>> THEN [res |-> NotFound, db |-> db]
            ELSE IF fault = "select_alt_name" THEN [res |-> StorageError, db |-> db]
            ELSE [res |-> Ok(Some(GameMetadataOf(db, found[1].id,
                             SelectAltNames(db, Unwrap(found[1].id)), found[1]))),
                  db |-> db]

GetGameMetadataByIdBody(db, target_id, fault) ==
    IF fault = "select_metadata" THEN [res |-> StorageError, db |-> db]
    ELSE LET Match(r) == r.id = Some(target_id)
             found == SelectSeq(db.game_metadata, Match)
         IN IF found = <<>> THEN [res |-> Ok(None), db |-> db]
            ELSE LET meta == found[1]
                 IN IF ~IsSome(meta.id) THEN [res |-> Ok(None), db |-> db]
                    ELSE IF fault = "select_alt_name"
                         THEN [res |-> StorageError, db |-> db]
                    ELSE [res |-> Ok(Some(GameMetadataOf(db, Some(Unwrap(meta.id)),
                                     SelectAltNames(db, Unwrap(meta.id)), meta))),
                          db |-> db]

get_game_metadata_by_id(db, target_id, fault) ==
    PoolGet(db, fault,
        ImmediateTransaction(db, fault, GetGameMetadataByIdBody(db, target_id, fault)))

\* The method when no other caller commits between its statements.
get_games_metadata(db, fault) ==
    PoolGet(db, fault,
        IF fault = "select_metadata" THEN [res |-> StorageError, db |-> db]
        ELSE [res |-> HydrateGames(db, db.game_metadata, fault), db |-> db])

ListFaults == {"none", "pool", "select_metadata", "select_alt_name"}
\* What fails before the loop of a listing method: pool.get, the statement
\* that loads the rows, or nothing.
LoadFaults(first) == {"none", "pool", first}
GetGameMetadataByIdFaults ==
    {"none", "pool", "begin", "select_metadata", "select_alt_name", "commit"}

(***************************************************************************)
(* add_game_path, get_paths_by_game_id_and_os, get_paths_by_game_id        *)
(***************************************************************************)
InsertFaults == {"none", "pool", "insert"}
SelectFaults == {"none", "pool", "select"}

\* The insert as a replace keyed by game and operating system.
add_game_path_replace(db, game_id, path, fault) ==
    PoolGet(db, fault,
        IF fault = "insert" THEN [res |-> StorageError, db |-> db]
        ELSE LET Same(r) == /\ r.game_metadata_id = game_id
                            /\ r.operating_system = path.operating_system
                 Other(r) == ~Same(r)
             IN [res |-> Ok(<<>>),
                 db |-> [db EXCEPT !.game_path =
                           Append(SelectSeq(@, Other),
                                  [id |-> Some(AssignRowId(@)),
                                   path |-> path.path,
                                   operating_system |-> path.operating_system,
                                   game_metadata_id |-> game_id])]])

add_game_path(db, game_id, path, fault) ==
    PoolGet(db, fault,
        IF fault = "insert" THEN [res |-> StorageError, db |-> db]
        ELSE [res |-> Ok(<<>>),
              db |-> [db EXCEPT !.game_path =
                        Append(@, [id |-> Some(AssignRowId(@)),
                                   path |-> path.path,
                                   operating_system |-> path.operating_system,
                                   game_metadata_id |-> game_id])]])

\* The query without its filter on operating_system.
get_paths_by_game_id_any_os(db, game_id, os, fault) ==
    PoolGet(db, fault,
        IF fault = "select" THEN [res |-> StorageError, db |-> db]
        ELSE LET Match(r) == r.game_metadata_id = game_id
                 rows == SelectSeq(db.game_path, Match)
             IN [res |-> Ok([i \in 1..Len(rows) |-> rows[i].path]), db |-> db])

get_paths_by_game_id_and_os(db, game_id, os, fault) ==
    PoolGet(db, fault,
        IF fault = "select" THEN [res |-> StorageError, db |-> db]
        ELSE LET Match(r) == r.game_metadata_id = game_id /\ r.operating_system = os
                 rows == SelectSeq(db.game_path, Match)
             IN [res |-> Ok([i \in 1..Len(rows) |-> rows[i].path]), db |-> db])

get_paths_by_game_id(db, game_id, fault) ==
    PoolGet(db, fault,
        IF fault = "select" THEN [res |-> StorageError, db |-> db]
        ELSE LET Match(r) == r.game_metadata_id = game_id
                 path_rows == SelectSeq(db.game_path, Match)
             IN [res |-> Ok([i \in 1..Len(path_rows) |->
                              [id |-> path_rows[i].id,
                               path |-> [path |-> path_rows[i].path,
                                         operating_system |->
                                             path_rows[i].operating_system]]]),
                 db |-> db])

(***************************************************************************)
(* add_game_executable, get_executable_by_game_id_and_os,                  *)
(* get_executable_by_game_id                                               *)
(***************************************************************************)
add_game_executable(db, game_id, executable, fault) ==
    PoolGet(db, fault,
        IF fault = "insert" THEN [res |-> StorageError, db |-> db]
        ELSE [res |-> Ok(<<>>),
              db |-> [db EXCEPT !.game_executable =
                        Append(@, [id |-> Some(AssignRowId(@)),
                                   executable |-> executable.executable,
                                   operating_system |-> executable.operating_system,
                                   game_metadata_id |-> game_id])]])

get_executable_by_game_id_and_os(db, game_id, os, fault) ==
    PoolGet(db, fault,
        IF fault = "select" THEN [res |-> StorageError, db |-> db]
        ELSE LET Match(r) == r.game_metadata_id = game_id /\ r.operating_system = os
                 rows == SelectSeq(db.game_executable, Match)
             IN [res |-> Ok([i \in 1..Len(rows) |-> rows[i].executable]), db |-> db])

get_executable_by_game_id(db, game_id, fault) ==
    PoolGet(db, fault,
        IF fault = "select" THEN [res |-> StorageError, db |-> db]
        ELSE LET Match(r) == r.game_metadata_id = game_id
                 executable_rows == SelectSeq(db.game_executable, Match)
             IN [res |-> Ok([i \in 1..Len(executable_rows) |->
                              [id |-> executable_rows[i].id,
                               executable |->
                                   [executable |-> executable_rows[i].executable,
                                    operating_system |->
                                        executable_rows[i].operating_system]]]),
                 db |-> db])

(***************************************************************************)
(* add_reference_to_save, get_reference_to_save_by_path_id                 *)
(***************************************************************************)
\* time::PrimitiveDateTime::new(now.date(), now.time()): the date and time of
\* day of the UTC instant, sub-second part included.
PrimitiveDateTime(now) == [secs |-> now.secs, nanos |-> now.nanos]
\* game_save.time.assume_utc().unix_timestamp(): whole seconds.
UnixTimestamp(time) == time.secs

\* game_save.uuid is the table's key: a second row with the same uuid is a
\* constraint violation.
UuidTaken(db, uuid) == \E i \in 1..Len(db.game_save) : db.game_save[i].uuid = uuid

InsertGameSave(db, uuid, path_id, now) ==
    [db EXCEPT !.game_save =
        Append(@, [uuid |-> uuid, path_id |-> path_id,
                   time |-> PrimitiveDateTime(now)])]

\* The first n iterations of the loop over files_hash.
InsertFileHashes(db, uuid, files_hash, n) ==
    [db EXCEPT !.file_hash =
        @ \o [i \in 1..n |-> [relative_path |-> files_hash[i].relative_path,
                              hash |-> files_hash[i].hash,
                              game_save_uuid |-> uuid]]]

\* The insert of the save row ignoring a constraint violation: the loop then
\* runs against the save that already has the uuid.
AddReferenceToSaveBodyIgnore(db, uuid, path_id, files_hash, now, fault, k) ==
    IF fault = "insert_save" THEN [res |-> StorageError, db |-> db]
    ELSE LET db1 == IF UuidTaken(db, uuid) THEN db
                    ELSE InsertGameSave(db, uuid, path_id, now)
         IN IF fault = "insert_file_hash" /\ k <= Len(files_hash)
            THEN [res |-> StorageError,
                  db |-> InsertFileHashes(db1, uuid, files_hash, k - 1)]
            ELSE [res |-> Ok(<<>>),
                  db |-> InsertFileHashes(db1, uuid, files_hash, Len(files_hash))]

\* fault "insert_file_hash" fails the k-th insert of the loop (when the list
\* has that many entries).
AddReferenceToSaveBody(db, uuid, path_id, files_hash, now, fault, k) ==
    IF fault = "insert_save" \/ UuidTaken(db, uuid)
    THEN [res |-> StorageError, db |-> db]
    ELSE LET db1 == InsertGameSave(db, uuid, path_id, now)
         IN IF fault = "insert_file_hash" /\ k <= Len(files_hash)
            THEN [res |-> StorageError,
                  db |-> InsertFileHashes(db1, uuid, files_hash, k - 1)]
            ELSE [res |-> Ok(<<>>),
                  db |-> InsertFileHashes(db1, uuid, files_hash, Len(files_hash))]

\* The statements run without a transaction around them.
add_reference_to_save_autocommit(db, uuid, path_id, files_hash, now, fault, k) ==
    PoolGet(db, fault,
        AddReferenceToSaveBody(db, uuid, path_id, files_hash, now, fault, k))

add_reference_to_save(db, uuid, path_id, files_hash, now, fault, k) ==
    PoolGet(db, fault,
        ImmediateTransaction(db, fault,
            AddReferenceToSaveBody(db, uuid, path_id, files_hash, now, fault, k)))

\* <<fault, k>>: the failing step and, for the loop, the failing iteration.
AddReferenceToSaveFaults ==
    ({"none", "pool", "begin", "insert_save", "commit"} \X {1})
        \cup ({"insert_file_hash"} \X (1..MaxFiles))

\* The file rows joined to the saves of the path instead of to the one save.
BelongingToPath(db, save_row) ==
    LET Match(r) == \E i \in 1..Len(db.game_save) :
                        /\ db.game_save[i].uuid = r.game_save_uuid
                        /\ db.game_save[i].path_id = save_row.path_id
    IN SelectSeq(db.file_hash, Match)

\* DbFileHash::belonging_to(&game_save): the rows whose game_save_uuid is the
\* save's key.
BelongingTo(db, save_row) ==
    LET Match(r) == r.game_save_uuid = save_row.uuid
    IN SelectSeq(db.file_hash, Match)

SaveReferenceOf(db, save_row) ==
    LET files_hash_db == BelongingTo(db, save_row)
    IN [uuid |-> save_row.uuid,
        path_id |-> save_row.path_id,
        time |-> UnixTimestamp(save_row.time),
        files_hash |-> [i \in 1..Len(files_hash_db) |->
                          [relative_path |-> files_hash_db[i].relative_path,
                           hash |-> files_hash_db[i].hash]]]

\* One iteration of the loop over save_rows: the file rows of the loaded save
\* are queried on the database as it is when the statement runs.
LoadSaveReference(db, save_row, fault) ==
    IF fault = "select_file_hash" THEN StorageError
    ELSE Ok(SaveReferenceOf(db, save_row))

\* The saves loaded without the filter on path_id.
SelectSaveRowsUnfiltered(db, path_id) == db.game_save

\* The saves loaded through an inner join with file_hash: a save without file
\* rows is not loaded.
SelectSaveRowsJoined(db, path_id) ==
    LET Match(r) == r.path_id = path_id /\ BelongingTo(db, r) # <<>>
    IN SelectSeq(db.game_save, Match)

\* select * from game_save where path_id = path_id
SelectSaveRows(db, path_id) ==
    LET Match(r) == r.path_id = path_id
    IN SelectSeq(db.game_save, Match)

\* The method when no other caller commits between its statements.
get_reference_to_save_by_path_id(db, path_id, fault) ==
    PoolGet(db, fault,
        IF fault = "select_save" THEN [res |-> StorageError, db |-> db]
        ELSE LET save_rows == SelectSaveRows(db, path_id)
             IN IF save_rows = <<>> THEN [res |-> Ok(None), db |-> db]
                ELSE IF fault = "select_file_hash"
                     THEN [res |-> StorageError, db |-> db]
                ELSE [res |-> Ok(Some([i \in 1..Len(save_rows) |->
                                        SaveReferenceOf(db, save_rows[i])])),
                      db |-> db])

GetReferenceToSaveFaults == {"none", "pool", "select_save", "select_file_hash"}

(***************************************************************************)
(* GameDatabase::new                                                       *)
(***************************************************************************)
\* The versions of the embedded migrations, in the order they are applied.
Migrations == 1..MaxMigrations

PanicWith(msg) == [tag |-> "Panic", val |-> msg]

\* run_pending_migrations: the migrations not yet recorded as applied run in
\* version order; the first failure stops the run and keeps what was applied.
RECURSIVE RunPendingMigrations(_, _, _)
RunPendingMigrations(done, version, failing) ==
    IF version > MaxMigrations THEN [res |-> Ok(<<>>), applied |-> done]
    ELSE IF version \in done THEN RunPendingMigrations(done, version + 1, failing)
    ELSE IF failing = 1 THEN [res |-> StorageError, applied |-> done]
    ELSE RunPendingMigrations(done \cup {version}, version + 1, failing - 1)

\* What fails during new: building the pool, borrowing the connection, the
\* bookkeeping of run_pending_migrations (its table of applied versions is
\* created and read before any migration runs), the first or the second
\* pending migration, or nothing.
NewFaults == {"none", "pool", "connection", "versions", "migration",
              "next_migration"}
FailingMigration(fault) ==
    IF fault = "migration" THEN 1 ELSE IF fault = "next_migration" THEN 2 ELSE 0

\* The handle returned without running the migrations.
new_without_migrations(done, fault) ==
    IF fault = "pool"
    THEN [res |-> PanicWith("Failed to create pool"), applied |-> done]
    ELSE IF fault = "connection"
    THEN [res |-> PanicWith("Failed to get DB connection"), applied |-> done]
    ELSE [res |-> Ok(<<>>), applied |-> done]

new(done, fault) ==
    IF fault = "pool"
    THEN [res |-> PanicWith("Failed to create pool"), applied |-> done]
    ELSE IF fault = "connection"
    THEN [res |-> PanicWith("Failed to get DB connection"), applied |-> done]
    ELSE IF fault = "versions"
    THEN [res |-> PanicWith("Failed to run database migrations"),
          applied |-> done]
    ELSE LET run == RunPendingMigrations(done, 1, FailingMigration(fault))
         IN IF run.res.tag = "Err"
            THEN [res |-> PanicWith("Failed to run database migrations"),
                  applied |-> run.applied]
            ELSE run

(***************************************************************************)
(* The callers of the handle, the connection pool and the write lock.      *)
(***************************************************************************)
Callers == {"a", "b"}
\* A pool smaller than the number of callers, and one that serves them all.
PoolSizes == {1, Cardinality(Callers)}

\* A caller between calls.
Idle == [pc |-> "idle", op |-> "", arg |-> <<>>, held |-> 0, txn |-> None,
         rows |-> <<>>, i |-> 0, acc |-> <<>>, own |-> 0, res |-> None]

\* No call is in progress; every connection of the pool is idle and no
\* connection holds the write lock of the database file.
NoCalls(size) ==
    /\ calls = [p \in Callers |-> Idle]
    /\ write_lock = None
    /\ pool = [max_size |-> size, idle |-> size]

(***************************************************************************)
(* The state machine: GameDatabase::new, then any sequence of calls.       *)
(***************************************************************************)
Store(db) ==
    /\ game_metadata' = db.game_metadata
    /\ game_alt_name' = db.game_alt_name
    /\ game_path' = db.game_path
    /\ game_executable' = db.game_executable
    /\ game_save' = db.game_save
    /\ file_hash' = db.file_hash

\* A listing call between two of its statements: the rows it loaded, the
\* index of the row whose query comes next and the records built so far.
Pending(rows, i, acc) ==
    [tag |-> "Pending", val |-> [rows |-> rows, i |-> i, acc |-> acc]]
Reading == last.res.tag = "Pending"

\* The number of adds committed so far.
Seen == [games |-> Len(added_games), saves |-> Len(added_saves)]

\* A method that runs one statement or one transaction is called on the
\* handle that new returned, by a caller that is not inside a call.
Call(op, arg, fault, r) ==
    /\ opened
    /\ ~Reading
    /\ Store(r.db)
    /\ last' = [op |-> op, arg |-> arg, fault |-> fault, res |-> r.res,
                seen |-> Seen]
    /\ UNCHANGED <<applied, opened, calls, write_lock, pool>>

\* A listing method is called: pool.get and the statement that loads the
\* rows.  The method returns when either fails and when the loop has no row
\* to run over; otherwise its loop runs next, one statement per loaded row,
\* with no transaction around the statements.
Load(op, arg, fault, first, rows, empty) ==
    /\ opened
    /\ ~Reading
    /\ last' = [op |-> op, arg |-> arg, fault |-> fault, seen |-> Seen,
                res |-> IF fault = "pool" THEN ConnectionError
                        ELSE IF fault = first THEN StorageError
                        ELSE IF rows = <<>> THEN empty
                        ELSE Pending(rows, 1, <<>>)]
    /\ UNCHANGED <<tables, added_games, added_saves,
                   applied, opened, calls, write_lock, pool>>

\* The listing call returns res, through `?`, the unwrap or its last line.
Return(fault, res) ==
    /\ last' = [last EXCEPT !.fault = fault, !.res = res]
    /\ UNCHANGED <<tables, added_games, added_saves,
                   applied, opened, calls, write_lock, pool>>

\* The loop pushes item and goes on to the next loaded row.
Continue(item) ==
    /\ last' = [last EXCEPT !.res = Pending(@.val.rows, @.val.i + 1,
                                            Append(@.val.acc, item))]
    /\ UNCHANGED <<tables, added_games, added_saves,
                   applied, opened, calls, write_lock, pool>>

Init ==
    /\ applied = Migrations
    /\ opened = TRUE
    /\ NoCalls(Cardinality(Callers))
    /\ game_metadata = <<>>
    /\ game_alt_name = <<>>
    /\ game_path = <<>>
    /\ game_executable = <<>>
    /\ game_save = <<>>
    /\ file_hash = <<>>
    /\ added_games = <<>>
    /\ added_saves = <<>>
    /\ last = [op |-> "new", arg |-> <<>>, fault |-> "none", res |-> Ok(<<>>),
               seen |-> Seen]

AddGameMetadata ==
    /\ Len(game_metadata) < MaxGames
    /\ \E rec \in GameMetadataCreate, fault \in AddGameMetadataFaults :
         LET r == add_game_metadata(DB, rec, fault)
         IN /\ Len(game_alt_name) + Len(rec.known_name) <= MaxAliasRows
            /\ Call("add_game_metadata", <<>>, fault, r)
            /\ added_games' =
                 IF r.res.tag = "Ok"
                 THEN Append(added_games,
                             [id |-> AssignRowId(game_metadata), metadata |-> rec])
                 ELSE added_games
            /\ UNCHANGED added_saves

\* Another caller's add_game_metadata commits between two statements of the
\* listing call in progress.  (One that fails rolls back and shows nothing.)
AddGameMetadataMeanwhile ==
    /\ Reading
    /\ Len(game_metadata) < MaxGames
    /\ \E rec \in GameMetadataCreate :
         LET r == add_game_metadata(DB, rec, "none")
         IN /\ Len(game_alt_name) + Len(rec.known_name) <= MaxAliasRows
            /\ Store(r.db)
            /\ added_games' =
                 Append(added_games,
                        [id |-> AssignRowId(game_metadata), metadata |-> rec])
            /\ UNCHANGED <<last, added_saves,
                           applied, opened, calls, write_lock, pool>>

GetGameMetadataByName ==
    \E target_name \in Names, fault \in LoadFaults("select_metadata") :
        Load("get_game_metadata_by_name", target_name, fault, "select_metadata",
             SelectGamesByName(DB, target_name), Ok(<<>>))

GetGameMetadataById ==
    \E target_id \in GameIds, fault \in GetGameMetadataByIdFaults :
        /\ Call("get_game_metadata_by_id", target_id, fault,
                get_game_metadata_by_id(DB, target_id, fault))
        /\ UNCHANGED <<added_games, added_saves>>

GetGamesMetadata ==
    \E fault \in LoadFaults("select_metadata") :
        Load("get_games_metadata", <<>>, fault, "select_metadata",
             game_metadata, Ok(<<>>))

\* One iteration of the loop of get_game_metadata_by_name or
\* get_games_metadata, on the database as it is now.
SelectAltNamesOfNext ==
    /\ Reading
    /\ last.op \in {"get_game_metadata_by_name", "get_games_metadata"}
    /\ \E fault \in {"none", "select_alt_name"} :
         LET reading == last.res.val
             game == HydrateGame(DB, reading.rows[reading.i], fault)
         IN IF game.tag = "Panic" THEN Return("none", game)
            ELSE IF game.tag = "Err" THEN Return(fault, game)
            ELSE IF reading.i = Len(reading.rows)
                 THEN Return("none", Ok(Append(reading.acc, game.val)))
            ELSE Continue(game.val)

AddGamePath ==
    /\ Len(game_path) + Len(game_executable) < MaxLocations
    /\ \E game_id \in OwnerIds, path \in SavePathCreate, fault \in InsertFaults :
         /\ Call("add_game_path", <<>>, fault,
                 add_game_path(DB, game_id, path, fault))
         /\ UNCHANGED <<added_games, added_saves>>

\* Another caller's add_game_path commits between two statements of the
\* listing call in progress: the insert is one statement and the listing
\* call holds no lock between its statements.
AddGamePathMeanwhile ==
    /\ Reading
    /\ Len(game_path) + Len(game_executable) < MaxLocations
    /\ \E game_id \in OwnerIds, path \in SavePathCreate :
         /\ Store(add_game_path(DB, game_id, path, "none").db)
         /\ UNCHANGED <<last, added_games, added_saves,
                        applied, opened, calls, write_lock, pool>>

GetPathsByGameIdAndOs ==
    \E game_id \in OwnerIds, os \in OS, fault \in SelectFaults :
        /\ Call("get_paths_by_game_id_and_os", <<game_id, os>>, fault,
                get_paths_by_game_id_and_os(DB, game_id, os, fault))
        /\ UNCHANGED <<added_games, added_saves>>

GetPathsByGameId ==
    \E game_id \in OwnerIds, fault \in SelectFaults :
        /\ Call("get_paths_by_game_id", game_id, fault,
                get_paths_by_game_id(DB, game_id, fault))
        /\ UNCHANGED <<added_games, added_saves>>

AddGameExecutable ==
    /\ Len(game_path) + Len(game_executable) < MaxLocations
    /\ \E game_id \in OwnerIds, executable \in ExecutableCreate,
          fault \in InsertFaults :
         /\ Call("add_game_executable", <<>>, fault,
                 add_game_executable(DB, game_id, executable, fault))
         /\ UNCHANGED <<added_games, added_saves>>

\* Another caller's add_game_executable commits between two statements of
\* the listing call in progress.
AddGameExecutableMeanwhile ==
    /\ Reading
    /\ Len(game_path) + Len(game_executable) < MaxLocations
    /\ \E game_id \in OwnerIds, executable \in ExecutableCreate :
         /\ Store(add_game_executable(DB, game_id, executable, "none").db)
         /\ UNCHANGED <<last, added_games, added_saves,
                        applied, opened, calls, write_lock, pool>>

GetExecutableByGameIdAndOs ==
    \E game_id \in OwnerIds, os \in OS, fault \in SelectFaults :
        /\ Call("get_executable_by_game_id_and_os", <<game_id, os>>, fault,
                get_executable_by_game_id_and_os(DB, game_id, os, fault))
        /\ UNCHANGED <<added_games, added_saves>>

GetExecutableByGameId ==
    \E game_id \in OwnerIds, fault \in SelectFaults :
        /\ Call("get_executable_by_game_id", game_id, fault,
                get_executable_by_game_id(DB, game_id, fault))
        /\ UNCHANGED <<added_games, added_saves>>

\* Callers stop once every uuid of the model is in use.
AddReferenceToSave ==
    /\ Len(game_save) < MaxSaves
    /\ \E free \in Uuids : ~UuidTaken(DB, free)
    /\ \E uuid \in Uuids, path_id \in PathIds, files_hash \in FilesHash,
          now \in Times, fk \in AddReferenceToSaveFaults :
         LET r == add_reference_to_save(DB, uuid, path_id, files_hash, now,
                                        fk[1], fk[2])
         IN /\ Call("add_reference_to_save", uuid, fk, r)
            /\ added_saves' =
                 IF r.res.tag = "Ok"
                 THEN Append(added_saves,
                             [uuid |-> uuid, path_id |-> path_id,
                              files_hash |-> files_hash])
                 ELSE added_saves
            /\ UNCHANGED added_games

\* Another caller's add_reference_to_save commits between two statements of
\* the listing call in progress.
AddReferenceToSaveMeanwhile ==
    /\ Reading
    /\ Len(game_save) < MaxSaves
    /\ \E uuid \in Uuids, path_id \in PathIds, files_hash \in FilesHash,
          now \in Times :
         LET r == add_reference_to_save(DB, uuid, path_id, files_hash, now,
                                        "none", 1)
         IN /\ r.res.tag = "Ok"
            /\ Store(r.db)
            /\ added_saves' =
                 Append(added_saves, [uuid |-> uuid, path_id |-> path_id,
                                      files_hash |-> files_hash])
            /\ UNCHANGED <<last, added_games,
                           applied, opened, calls, write_lock, pool>>

GetReferenceToSaveByPathId ==
    \E path_id \in PathIds, fault \in LoadFaults("select_save") :
        Load("get_reference_to_save_by_path_id", path_id, fault, "select_save",
             SelectSaveRows(DB, path_id), Ok(None))

\* One iteration of the loop of get_reference_to_save_by_path_id, on the
\* database as it is now.
SelectFileHashesOfNext ==
    /\ Reading
    /\ last.op = "get_reference_to_save_by_path_id"
    /\ \E fault \in {"none", "select_file_hash"} :
         LET reading == last.res.val
             reference == LoadSaveReference(DB, reading.rows[reading.i], fault)
         IN IF reference.tag = "Err" THEN Return(fault, reference)
            ELSE IF reading.i = Len(reading.rows)
                 THEN Return("none", Ok(Some(Append(reading.acc, reference.val))))
            ELSE Continue(reference.val)

NextMeta ==
    \/ AddGameMetadata
    \/ AddGameMetadataMeanwhile
    \/ GetGameMetadataByName
    \/ GetGameMetadataById
    \/ GetGamesMetadata
    \/ SelectAltNamesOfNext

NextLoc ==
    \/ AddGamePath
    \/ GetPathsByGameIdAndOs
    \/ GetPathsByGameId
    \/ AddGameExecutable
    \/ GetExecutableByGameIdAndOs
    \/ GetExecutableByGameId

NextSave ==
    \/ AddReferenceToSave
    \/ AddReferenceToSaveMeanwhile
    \/ GetReferenceToSaveByPathId
    \/ SelectFileHashesOfNext

TotalRows == Len(game_metadata) + Len(game_path) + Len(game_executable)

\* The writers of the catalog: the rows that refer to a game.
NextCatalog ==
    /\ TotalRows < MaxRows
    /\ \/ AddGameMetadata
       \/ AddGamePath
       \/ AddGameExecutable

\* The two lookups that answer "not found", with their writers: a run fills
\* the games or the saves, and queries both.
NextLookup ==
    \/ game_save = <<>> /\ AddGameMetadata
    \/ game_metadata = <<>> /\ AddReferenceToSave
    \/ game_metadata = <<>> /\ AddReferenceToSaveMeanwhile
    \/ GetGameMetadataById
    \/ GetReferenceToSaveByPathId
    \/ SelectFileHashesOfNext

SpecMeta == Init /\ [][NextMeta]_vars
SpecLoc == Init /\ [][NextLoc]_vars
SpecSave == Init /\ [][NextSave]_vars
SpecCatalog == Init /\ [][NextCatalog]_vars
SpecLookup == Init /\ [][NextLookup]_vars

(***************************************************************************)
(* A store opened on a location that already holds rows.                   *)
(***************************************************************************)
EmptyDB == [game_metadata |-> <<>>, game_alt_name |-> <<>>, game_path |-> <<>>,
            game_executable |-> <<>>, game_save |-> <<>>, file_hash |-> <<>>]

\* The game "Foo" with the alt-name "F", its Linux save path and one save.
StoredGame == [known_name |-> <<"F">>, steam_appid |-> Some("10"),
               default_name |-> "Foo"]
StoredSave == [uuid |-> "abc", path_id |-> 7,
               files_hash |-> <<[relative_path |-> "s1.dat", hash |-> "h1"]>>]
StoredDB ==
    LET db1 == add_game_metadata(EmptyDB, StoredGame, "none").db
        db2 == add_game_path(db1, 1, [path |-> "/save/foo",
                                      operating_system |-> "Linux"], "none").db
    IN add_reference_to_save(db2, StoredSave.uuid, StoredSave.path_id,
                             StoredSave.files_hash, [secs |-> 100, nanos |-> 5],
                             "none", 0).db

\* The location holds the rows of earlier runs and their calls are known.
Stored(db) ==
    /\ game_metadata = db.game_metadata
    /\ game_alt_name = db.game_alt_name
    /\ game_path = db.game_path
    /\ game_executable = db.game_executable
    /\ game_save = db.game_save
    /\ file_hash = db.file_hash
    /\ added_games = IF db = EmptyDB THEN <<>>
                     ELSE <<[id |-> 1, metadata |-> StoredGame]>>
    /\ added_saves = IF db = EmptyDB THEN <<>> ELSE <<StoredSave>>

\* new has returned a handle on the location that holds the stored rows.
InitStored ==
    /\ applied = Migrations
    /\ opened = TRUE
    /\ NoCalls(Cardinality(Callers))
    /\ Stored(StoredDB)
    /\ last = [op |-> "new", arg |-> <<>>, fault |-> "none", res |-> Ok(<<>>),
               seen |-> Seen]

\* A location before new is called: any prefix of the migrations was applied
\* by an earlier version of the program, and rows exist only under the full
\* schema.
InitLocation ==
    /\ \E k \in 0..MaxMigrations : applied = 1..k
    /\ opened = FALSE
    /\ NoCalls(Cardinality(Callers))
    /\ \E db \in {EmptyDB, StoredDB} :
          /\ db # EmptyDB => applied = Migrations
          /\ Stored(db)
    /\ last = [op |-> "start", arg |-> <<>>, fault |-> "none", res |-> Ok(<<>>),
               seen |-> Seen]

Open ==
    \E fault \in NewFaults :
        LET r == new(applied, fault)
        IN /\ applied' = r.applied
           /\ opened' = (opened \/ r.res.tag = "Ok")
           /\ last' = [op |-> "new", arg |-> <<>>, fault |-> fault, res |-> r.res,
                       seen |-> Seen]
           /\ UNCHANGED <<tables, added_games, added_saves,
                          calls, write_lock, pool>>

\* new, and a writer and a reader that use the handle.
NextStartup ==
    \/ Open
    \/ AddGameExecutable
    \/ GetExecutableByGameId

MetaStored ==
    game_metadata = StoredDB.game_metadata /\ game_alt_name = StoredDB.game_alt_name
LocStored ==
    game_path = StoredDB.game_path /\ game_executable = StoredDB.game_executable
SaveStored ==
    game_save = StoredDB.game_save /\ file_hash = StoredDB.file_hash

\* Every method, on a store that holds rows in each group of tables: a run
\* adds to one group and queries all of them.
NextAll ==
    \/ LocStored /\ SaveStored /\ AddGameMetadata
    \/ MetaStored /\ SaveStored /\ AddGamePath
    \/ MetaStored /\ SaveStored /\ AddGameExecutable
    \/ MetaStored /\ LocStored /\ AddReferenceToSave
    \/ LocStored /\ SaveStored /\ AddGameMetadataMeanwhile
    \/ MetaStored /\ SaveStored /\ AddGamePathMeanwhile
    \/ MetaStored /\ SaveStored /\ AddGameExecutableMeanwhile
    \/ MetaStored /\ LocStored /\ AddReferenceToSaveMeanwhile
    \/ GetGameMetadataByName
    \/ GetGameMetadataById
    \/ GetGamesMetadata
    \/ SelectAltNamesOfNext
    \/ GetPathsByGameIdAndOs
    \/ GetPathsByGameId
    \/ GetExecutableByGameIdAndOs
    \/ GetExecutableByGameId
    \/ GetReferenceToSaveByPathId
    \/ SelectFileHashesOfNext

SpecStartup == InitLocation /\ [][NextStartup]_vars
SpecAll == InitStored /\ [][NextAll]_vars

(***************************************************************************)
(* Concurrent callers.  A call is a sequence of steps: pool.get, BEGIN      *)
(* IMMEDIATE when the method runs a transaction, one step per SQL          *)
(* statement, COMMIT, and the return that drops the connection.  The six   *)
(* tables are the committed database; a transaction works on its own copy  *)
(* (txn) that COMMIT publishes.  The storage may fail any statement.       *)
(***************************************************************************)
\* The games and saves the concurrent callers add.
ConcGames == {[known_name |-> <<"F">>, steam_appid |-> Some("10"),
               default_name |-> "Foo"],
              [known_name |-> <<"Foo">>, steam_appid |-> None,
               default_name |-> "F"]}
ConcSaves == {[uuid |-> "abc", path_id |-> 7,
               files_hash |-> <<[relative_path |-> "s1.dat", hash |-> "h1"],
                                [relative_path |-> "s2.dat", hash |-> "h1"]>>],
              [uuid |-> "def", path_id |-> 7,
               files_hash |-> <<[relative_path |-> "s2.dat", hash |-> "h1"]>>]}

\* No method runs its statements in a transaction.
UsesNoTransaction(op) == FALSE

\* The methods whose statements run in connection.immediate_transaction.
UsesTransaction(op) ==
    op \in {"add_game_metadata", "get_game_metadata_by_id", "add_reference_to_save"}

FirstStatement(op) ==
    CASE op = "add_game_metadata" -> "insert_metadata"
      [] op = "add_reference_to_save" -> "insert_save"
      [] op = "get_reference_to_save_by_path_id" -> "select_save"
      [] op \in {"get_game_metadata_by_id", "get_game_metadata_by_name",
                 "get_games_metadata"} -> "select_metadata"
      [] OTHER -> "statement"

\* pool.get() without a timeout: it waits for an idle connection.
PoolGetWaits(p) ==
    IF pool.idle > 0 THEN {"connection", "error"} ELSE {}

\* pool.get(): an idle connection, or the pool's error (no connection could
\* be established, or none became idle before the timeout).
PoolGetOutcomes(p) ==
    IF pool.idle > 0 THEN {"connection", "error"} ELSE {"error"}

\* BEGIN that takes no lock: transactions of two connections run together.
BeginDeferredOutcomes(p) == {"locked", "error"}

\* BEGIN IMMEDIATE: the write lock of the database file, or an error at once
\* when another connection holds it (no busy timeout is configured).
BeginOutcomes(p) ==
    IF write_lock = None THEN {"locked", "error"} ELSE {"error"}

\* The connection dropped without going back to the pool.
DropLeak(held) == pool

\* The PooledConnection goes out of scope when the method returns.
Drop(held) == [pool EXCEPT !.idle = @ + held]

\* Statements read the uncommitted rows of a transaction in progress.
ViewUncommitted(p) ==
    IF calls[p].txn # None THEN Unwrap(calls[p].txn)
    ELSE IF \E q \in Callers : calls[q].txn # None
         THEN Unwrap(calls[CHOOSE q \in Callers : calls[q].txn # None].txn)
    ELSE DB

\* What a statement of caller p reads: its transaction's copy, or the
\* committed database.
View(p) == IF calls[p].txn # None THEN Unwrap(calls[p].txn) ELSE DB

\* A statement outside a transaction writes when no other connection holds
\* the write lock.
CanWrite(p) == write_lock \in {None, Some(p)}

InFlight(op) == Cardinality({p \in Callers : calls[p].op = op /\ calls[p].pc # "done"})

\* The method returns res to its caller: a transaction still open is rolled
\* back, the connection is dropped.
Leave(p, res) ==
    LET c == calls[p]
    IN /\ calls' = [calls EXCEPT ![p] =
                      [Idle EXCEPT !.pc = "done", !.op = c.op, !.arg = c.arg,
                                   !.res = res]]
       /\ pool' = Drop(c.held)
       /\ write_lock' = IF write_lock = Some(p) THEN None ELSE write_lock
       /\ added_games' =
            IF res.tag = "Ok" /\ c.op = "add_game_metadata"
            THEN Append(added_games, [id |-> c.own, metadata |-> c.arg])
            ELSE added_games
       /\ added_saves' =
            IF res.tag = "Ok" /\ c.op = "add_reference_to_save"
            THEN Append(added_saves, c.arg)
            ELSE added_saves
       /\ UNCHANGED <<last, applied, opened>>

Exit(p, res) == Leave(p, res) /\ UNCHANGED tables

\* The statement succeeded and the method goes on with call state c2.
Proceed(p, c2, db2) ==
    /\ IF calls[p].txn # None
       THEN /\ calls' = [calls EXCEPT ![p] = [c2 EXCEPT !.txn = Some(db2)]]
            /\ UNCHANGED tables
       ELSE /\ calls' = [calls EXCEPT ![p] = c2]
            /\ Store(db2)
    /\ UNCHANGED <<write_lock, pool, last, added_games, added_saves,
                   applied, opened>>

\* The last statement succeeded: the closure returns Ok(val) and COMMIT
\* follows, or the method returns.
Finish(p, val, db2) ==
    IF calls[p].txn # None
    THEN Proceed(p, [calls[p] EXCEPT !.pc = "commit", !.res = Ok(val)], db2)
    ELSE Store(db2) /\ Leave(p, Ok(val))

StartCall(p, op, arg) ==
    /\ opened
    /\ calls[p].pc = "idle"
    /\ calls' = [calls EXCEPT ![p] = [Idle EXCEPT !.pc = "get", !.op = op,
                                                  !.arg = arg]]
    /\ UNCHANGED <<tables, write_lock, pool, last, added_games, added_saves,
                   applied, opened>>

\* Concurrent callers work on one group of tables at a time: a method of a
\* group is called while the other groups are empty and unused.
MetaOps == {"add_game_metadata", "get_game_metadata_by_id",
            "get_game_metadata_by_name", "get_games_metadata"}
SaveOps == {"add_reference_to_save", "get_reference_to_save_by_path_id"}
Unused(ops) == \A p \in Callers : calls[p].pc # "idle" => calls[p].op \notin ops
MetaEmpty == game_metadata = <<>> /\ Unused(MetaOps)
SaveEmpty == game_save = <<>> /\ Unused(SaveOps)
LocEmpty ==
    /\ game_path = <<>> /\ game_executable = <<>>
    /\ \A p \in Callers : calls[p].pc # "idle" => calls[p].op \in MetaOps \cup SaveOps

StartMeta ==
    \E p \in Callers :
        /\ LocEmpty /\ SaveEmpty
        /\ \/ /\ Len(game_metadata) + InFlight("add_game_metadata") < MaxGames
              /\ \E rec \in ConcGames : StartCall(p, "add_game_metadata", rec)
           \/ \E target_id \in GameIds : StartCall(p, "get_game_metadata_by_id", target_id)
           \/ \E target_name \in Names :
                 StartCall(p, "get_game_metadata_by_name", target_name)
           \/ StartCall(p, "get_games_metadata", <<>>)

StartSave ==
    \E p \in Callers :
        /\ MetaEmpty /\ LocEmpty
        /\ \/ /\ Len(game_save) + InFlight("add_reference_to_save") < MaxSaves
              /\ \E free \in Uuids : ~UuidTaken(DB, free)
              /\ \E save \in ConcSaves : StartCall(p, "add_reference_to_save", save)
           \/ \E path_id \in PathIds :
                 StartCall(p, "get_reference_to_save_by_path_id", path_id)

\* The methods of one statement, each called for game 1.
StartLoc ==
    \E p \in Callers :
        /\ MetaEmpty /\ SaveEmpty
        /\ \/ /\ Len(game_path) + Len(game_executable)
                   + InFlight("add_game_path") + InFlight("add_game_executable")
                   < MaxLocations
              /\ \/ StartCall(p, "add_game_path",
                               <<1, [path |-> "/save/foo", operating_system |-> "Linux"]>>)
                 \/ StartCall(p, "add_game_executable",
                               <<1, [executable |-> "/save/bar",
                                     operating_system |-> "Linux"]>>)
           \/ StartCall(p, "get_paths_by_game_id_and_os", <<1, "Linux">>)
           \/ StartCall(p, "get_paths_by_game_id", 1)
           \/ StartCall(p, "get_executable_by_game_id_and_os", <<1, "Linux">>)
           \/ StartCall(p, "get_executable_by_game_id", 1)

\* let connection = &mut self.pool.get()?;
PoolGetStep(p) ==
    /\ calls[p].pc = "get"
    /\ \E outcome \in PoolGetOutcomes(p) :
         IF outcome = "error" THEN Exit(p, ConnectionError)
         ELSE /\ calls' = [calls EXCEPT ![p] =
                   [@ EXCEPT !.held = @ + 1,
                             !.pc = IF UsesTransaction(calls[p].op) THEN "begin"
                                    ELSE FirstStatement(calls[p].op)]]
              /\ pool' = [pool EXCEPT !.idle = @ - 1]
              /\ UNCHANGED <<tables, write_lock, last, added_games, added_saves,
                             applied, opened>>

BeginStep(p) ==
    /\ calls[p].pc = "begin"
    /\ \E outcome \in BeginOutcomes(p) :
         IF outcome = "error" THEN Exit(p, StorageError)
         ELSE /\ calls' = [calls EXCEPT ![p] =
                   [@ EXCEPT !.txn = Some(DB),
                             !.pc = FirstStatement(calls[p].op)]]
              /\ write_lock' = Some(p)
              /\ UNCHANGED <<tables, pool, last, added_games, added_saves,
                             applied, opened>>

InsertMetadataStep(p) ==
    LET c == calls[p]
        db == View(p)
    IN /\ c.pc = "insert_metadata"
       /\ \/ /\ CanWrite(p)
             /\ Proceed(p, [c EXCEPT !.pc = "select_id",
                                     !.own = AssignRowId(db.game_metadata)],
                        InsertGameMetadata(db, c.arg))
          \/ Exit(p, StorageError)

SelectIdStep(p) ==
    LET c == calls[p]
        db == View(p)
        inserted_id == SelectInsertedId(db)
    IN /\ c.pc = "select_id"
       /\ \/ IF inserted_id.tag = "Err" THEN Exit(p, inserted_id)
             ELSE IF ~IsSome(inserted_id.val)
                  THEN Exit(p, Err("Failed to get inserted id"))
             ELSE Proceed(p, [c EXCEPT !.pc = "insert_alt_name",
                                       !.acc = Unwrap(inserted_id.val)], db)
          \/ Exit(p, StorageError)

InsertAltNameStep(p) ==
    LET c == calls[p]
        db == View(p)
    IN /\ c.pc = "insert_alt_name"
       /\ \/ /\ CanWrite(p)
             /\ Finish(p, <<>>, InsertAltNames(db, c.arg.known_name, c.acc))
          \/ c.arg.known_name # <<>> /\ Exit(p, StorageError)

SelectMetadataStep(p) ==
    LET c == calls[p]
        db == View(p)
        ById(r) == r.id = Some(c.arg)
        db_games == IF c.op = "get_game_metadata_by_id"
                    THEN SelectSeq(db.game_metadata, ById)
                    ELSE IF c.op = "get_game_metadata_by_name"
                    THEN SelectGamesByName(db, c.arg)
                    ELSE db.game_metadata
    IN /\ c.pc = "select_metadata"
       /\ \/ IF db_games = <<>>
             THEN Finish(p, IF c.op = "get_game_metadata_by_id" THEN None
                            ELSE <<>>, db)
             ELSE IF c.op = "get_game_metadata_by_id" /\ ~IsSome(db_games[1].id)
                  THEN Finish(p, None, db)
             ELSE Proceed(p, [c EXCEPT !.pc = "select_alt_name",
                                       !.rows = IF c.op = "get_game_metadata_by_id"
                                                THEN <<db_games[1]>> ELSE db_games,
                                       !.i = 1], db)
          \/ Exit(p, StorageError)

\* One alias query: the one of get_game_metadata_by_id, or one iteration of
\* the loop of the listing methods.
SelectAltNameStep(p) ==
    LET c == calls[p]
        db == View(p)
        row == c.rows[c.i]
        game == GameMetadataOf(db, Some(Unwrap(row.id)),
                               SelectAltNames(db, Unwrap(row.id)), row)
    IN /\ c.pc = "select_alt_name"
       /\ \/ IF ~IsSome(row.id) THEN Exit(p, Panic)
             ELSE IF c.op = "get_game_metadata_by_id" THEN Finish(p, Some(game), db)
             ELSE IF c.i = Len(c.rows) THEN Finish(p, Append(c.acc, game), db)
             ELSE Proceed(p, [c EXCEPT !.i = @ + 1, !.acc = Append(@, game)], db)
          \/ IsSome(row.id) /\ Exit(p, StorageError)

InsertSaveStep(p) ==
    LET c == calls[p]
        db == View(p)
        db1 == InsertGameSave(db, c.arg.uuid, c.arg.path_id,
                              [secs |-> 100, nanos |-> 5])
    IN /\ c.pc = "insert_save"
       /\ \/ /\ CanWrite(p)
             /\ ~UuidTaken(db, c.arg.uuid)
             /\ IF c.arg.files_hash = <<>> THEN Finish(p, <<>>, db1)
                ELSE Proceed(p, [c EXCEPT !.pc = "insert_file_hash", !.i = 1], db1)
          \/ Exit(p, StorageError)

\* One iteration of the loop over files_hash.
InsertFileHashStep(p) ==
    LET c == calls[p]
        db == View(p)
        db1 == InsertFileHashes(db, c.arg.uuid, <<c.arg.files_hash[c.i]>>, 1)
    IN /\ c.pc = "insert_file_hash"
       /\ \/ /\ CanWrite(p)
             /\ IF c.i = Len(c.arg.files_hash) THEN Finish(p, <<>>, db1)
                ELSE Proceed(p, [c EXCEPT !.i = @ + 1], db1)
          \/ Exit(p, StorageError)

SelectSaveStep(p) ==
    LET c == calls[p]
        db == View(p)
        save_rows == SelectSaveRows(db, c.arg)
    IN /\ c.pc = "select_save"
       /\ \/ IF save_rows = <<>> THEN Finish(p, None, db)
             ELSE Proceed(p, [c EXCEPT !.pc = "select_file_hash",
                                       !.rows = save_rows, !.i = 1], db)
          \/ Exit(p, StorageError)

\* One iteration of the loop over save_rows.
SelectFileHashStep(p) ==
    LET c == calls[p]
        db == View(p)
        reference == SaveReferenceOf(db, c.rows[c.i])
    IN /\ c.pc = "select_file_hash"
       /\ \/ IF c.i = Len(c.rows) THEN Finish(p, Some(Append(c.acc, reference)), db)
             ELSE Proceed(p, [c EXCEPT !.i = @ + 1, !.acc = Append(@, reference)], db)
          \/ Exit(p, StorageError)

\* The one statement of a method that has one.
OneStatementStep(p) ==
    LET c == calls[p]
        db == View(p)
        r == CASE c.op = "add_game_path" ->
                    add_game_path(db, c.arg[1], c.arg[2], "none")
               [] c.op = "add_game_executable" ->
                    add_game_executable(db, c.arg[1], c.arg[2], "none")
               [] c.op = "get_paths_by_game_id_and_os" ->
                    get_paths_by_game_id_and_os(db, c.arg[1], c.arg[2], "none")
               [] c.op = "get_paths_by_game_id" ->
                    get_paths_by_game_id(db, c.arg, "none")
               [] c.op = "get_executable_by_game_id_and_os" ->
                    get_executable_by_game_id_and_os(db, c.arg[1], c.arg[2], "none")
               [] c.op = "get_executable_by_game_id" ->
                    get_executable_by_game_id(db, c.arg, "none")
    IN /\ c.pc = "statement"
       /\ \/ /\ c.op \in {"add_game_path", "add_game_executable"} => CanWrite(p)
             /\ Store(r.db)
             /\ Leave(p, r.res)
          \/ Exit(p, StorageError)

\* COMMIT publishes the transaction's copy; a failed COMMIT rolls it back.
CommitStep(p) ==
    LET c == calls[p]
    IN /\ c.pc = "commit"
       /\ \/ Store(Unwrap(c.txn)) /\ Leave(p, c.res)
          \/ Exit(p, StorageError)

\* The caller has its result and is free to call again.
ResumeStep(p) ==
    /\ calls[p].pc = "done"
    /\ calls' = [calls EXCEPT ![p] = Idle]
    /\ UNCHANGED <<tables, write_lock, pool, last, added_games, added_saves,
                   applied, opened>>

PoolGetAny == \E p \in Callers : PoolGetStep(p)
Begin == \E p \in Callers : BeginStep(p)
InsertMetadata == \E p \in Callers : InsertMetadataStep(p)
SelectId == \E p \in Callers : SelectIdStep(p)
InsertAltName == \E p \in Callers : InsertAltNameStep(p)
SelectMetadata == \E p \in Callers : SelectMetadataStep(p)
SelectAltName == \E p \in Callers : SelectAltNameStep(p)
InsertSave == \E p \in Callers : InsertSaveStep(p)
InsertFileHash == \E p \in Callers : InsertFileHashStep(p)
SelectSave == \E p \in Callers : SelectSaveStep(p)
SelectFileHash == \E p \in Callers : SelectFileHashStep(p)
OneStatement == \E p \in Callers : OneStatementStep(p)
Commit == \E p \in Callers : CommitStep(p)
Resume == \E p \in Callers : ResumeStep(p)

InitConc ==
    /\ applied = Migrations
    /\ opened = TRUE
    /\ \E size \in PoolSizes : NoCalls(size)
    /\ Stored(EmptyDB)
    /\ last = [op |-> "new", arg |-> <<>>, fault |-> "none", res |-> Ok(<<>>),
               seen |-> Seen]

NextConc ==
    \/ StartMeta
    \/ StartLoc
    \/ StartSave
    \/ PoolGetAny
    \/ Begin
    \/ InsertMetadata
    \/ SelectId
    \/ InsertAltName
    \/ SelectMetadata
    \/ SelectAltName
    \/ OneStatement
    \/ InsertSave
    \/ InsertFileHash
    \/ SelectSave
    \/ SelectFileHash
    \/ Commit
    \/ Resume

\* The steps of a call in progress.
CallSteps(p) ==
    \/ PoolGetStep(p)
    \/ BeginStep(p)
    \/ InsertMetadataStep(p)
    \/ SelectIdStep(p)
    \/ InsertAltNameStep(p)
    \/ SelectMetadataStep(p)
    \/ SelectAltNameStep(p)
    \/ OneStatementStep(p)
    \/ InsertSaveStep(p)
    \/ InsertFileHashStep(p)
    \/ SelectSaveStep(p)
    \/ SelectFileHashStep(p)
    \/ CommitStep(p)

SpecConc == InitConc /\ [][NextConc]_vars
\* Every thread that is inside a call keeps running.
SpecConcFair == SpecConc /\ \A p \in Callers : WF_vars(CallSteps(p))

(***************************************************************************)
(* Properties.                                                             *)
(***************************************************************************)
CountIn(s, x) == Cardinality({i \in 1..Len(s) : s[i] = x})
SameBag(s, t) ==
    /\ Len(s) = Len(t)
    /\ \A x \in SeqToSet(s) \cup SeqToSet(t) : CountIn(s, x) = CountIn(t, x)
IsAbsent(res) == res.tag = "Ok" /\ res.val = None
IsPresent(res) == res.tag = "Ok" /\ res.val # None
\* The observed call has returned.
LastReturned == ~Reading
\* The games and the saves that were committed when the observed call ran its
\* first statement.
SeenGames == 1..last.seen.games
SeenSaves == 1..last.seen.saves
AddedGameIds == {added_games[i].id : i \in 1..Len(added_games)}
FilesOfSave(uuid) ==
    LET Match(r) == r.game_save_uuid = uuid
        rows == SelectSeq(file_hash, Match)
    IN [i \in 1..Len(rows) |->
          [relative_path |-> rows[i].relative_path, hash |-> rows[i].hash]]

\* C1: add_game_metadata is all-or-nothing.  The game_metadata rows are exactly
\* the rows of the calls that returned Ok, each with every one of its alias
\* rows, and no alias row belongs to anything else: a call that failed at any
\* step left neither its metadata row nor an alias row.
C1_MetadataAllOrNothing ==
    /\ Len(game_metadata) = Len(added_games)
    /\ \A i \in 1..Len(added_games) :
         /\ i <= Len(game_metadata)
         /\ game_metadata[i].id = Some(added_games[i].id)
         /\ game_metadata[i].default_name = added_games[i].metadata.default_name
         /\ SelectAltNames(DB, added_games[i].id) = added_games[i].metadata.known_name
    /\ \A j \in 1..Len(game_alt_name) :
         game_alt_name[j].game_metadata_id \in AddedGameIds

\* The alias insert failed after the metadata insert of the same call, in a
\* catalog that already holds a game.
C1_Witness ==
    /\ last.op = "add_game_metadata"
    /\ last.fault = "insert_alt_name"
    /\ last.res.tag = "Err"
    /\ Len(game_metadata) >= 1

\* C2: add_reference_to_save is all-or-nothing.  The game_save rows are exactly
\* the rows of the calls that returned Ok, each with all the file_hash rows of
\* its call, and every file_hash row belongs to one of them: a call that failed
\* left neither its save row nor any file row.
C2_SaveAllOrNothing ==
    /\ Len(game_save) = Len(added_saves)
    /\ \A i \in 1..Len(added_saves) :
         /\ i <= Len(game_save)
         /\ game_save[i].uuid = added_saves[i].uuid
         /\ SameBag(FilesOfSave(added_saves[i].uuid), added_saves[i].files_hash)
    /\ \A j \in 1..Len(file_hash) :
         \E i \in 1..Len(game_save) : game_save[i].uuid = file_hash[j].game_save_uuid

\* The second file insert of a call failed, after the save row and the first
\* file row of that call were inserted.
C2_Witness ==
    /\ last.op = "add_reference_to_save"
    /\ last.fault = <<"insert_file_hash", 2>>
    /\ last.res.tag = "Err"
    /\ ~UuidTaken(DB, last.arg)
    /\ Len(game_save) >= 1

\* C3: round trip of game metadata.  get_game_metadata_by_id on the id of a
\* game added by a successful add_game_metadata returns, when the storage
\* works, a record with that id whose alias set, default name and steam app id
\* are those passed to add_game_metadata.
C3_MetadataRoundTrip ==
    (last.op = "get_game_metadata_by_id" /\ last.fault = "none") =>
        \A i \in 1..Len(added_games) :
            added_games[i].id = last.arg =>
                /\ IsPresent(last.res)
                /\ Unwrap(last.res.val).id = Some(last.arg)
                /\ SeqToSet(Unwrap(last.res.val).metadata.known_name)
                     = SeqToSet(added_games[i].metadata.known_name)
                /\ Unwrap(last.res.val).metadata.default_name
                     = added_games[i].metadata.default_name
                /\ Unwrap(last.res.val).metadata.steam_appid
                     = added_games[i].metadata.steam_appid

\* The second game, added with two alt-names, is read back.
C3_Witness ==
    /\ last.op = "get_game_metadata_by_id"
    /\ last.fault = "none"
    /\ last.arg = 2
    /\ IsPresent(last.res)
    /\ Len(added_games) = 2
    /\ Len(added_games[2].metadata.known_name) = 2

\* C4: multi-save grouping.  Every SaveReference returned by
\* get_reference_to_save_by_path_id carries exactly the file hashes passed to
\* the call that created its uuid.
C4_MultiSaveGrouping ==
    (last.op = "get_reference_to_save_by_path_id" /\ IsPresent(last.res)) =>
        LET refs == Unwrap(last.res.val)
        IN \A k \in 1..Len(refs) :
             \E i \in 1..Len(added_saves) :
                /\ added_saves[i].uuid = refs[k].uuid
                /\ SameBag(refs[k].files_hash, added_saves[i].files_hash)

\* Two saves of one path with different, non-empty file lists are returned.
C4_Witness ==
    /\ last.op = "get_reference_to_save_by_path_id"
    /\ IsPresent(last.res)
    /\ Len(Unwrap(last.res.val)) = 2
    /\ Unwrap(last.res.val)[1].files_hash # <<>>
    /\ Unwrap(last.res.val)[2].files_hash # <<>>
    /\ SeqToSet(Unwrap(last.res.val)[1].files_hash)
         # SeqToSet(Unwrap(last.res.val)[2].files_hash)

\* C5: retrieval is keyed by the owning path.  A present result of
\* get_reference_to_save_by_path_id(p) holds one SaveReference for each save
\* of path p that was committed when the call loaded its save rows and nothing
\* else, each with the uuid and the path id of its creation.
C5_KeyedByPath ==
    (last.op = "get_reference_to_save_by_path_id" /\ IsPresent(last.res)) =>
        LET refs == Unwrap(last.res.val)
            mine == {i \in SeenSaves : added_saves[i].path_id = last.arg}
        IN /\ Len(refs) = Cardinality(mine)
           /\ {refs[k].uuid : k \in 1..Len(refs)} = {added_saves[i].uuid : i \in mine}
           /\ \A k \in 1..Len(refs) : refs[k].path_id = last.arg

\* Saves exist under both paths and the result for path 7 is the one save
\* "abc" with the file s1.dat/h1.
C5_Witness ==
    /\ last.op = "get_reference_to_save_by_path_id"
    /\ last.arg = 7
    /\ IsPresent(last.res)
    /\ Len(game_save) = 2
    /\ Len(Unwrap(last.res.val)) = 1
    /\ Unwrap(last.res.val)[1].uuid = "abc"
    /\ Unwrap(last.res.val)[1].files_hash
         = <<[relative_path |-> "s1.dat", hash |-> "h1"]>>

\* C6: an empty snapshot is valid.  A call with an empty file list fails only
\* for a storage fault or a taken uuid; once it has returned Ok there is exactly
\* one game_save row of its uuid and no file_hash row of it, and a following
\* lookup of its path that the storage does not fail is present and holds a
\* SaveReference of that uuid with an empty file list.
C6_EmptySnapshot ==
    /\ \A i \in 1..Len(added_saves) :
         added_saves[i].files_hash = <<>> =>
            /\ Cardinality({j \in 1..Len(game_save) :
                              game_save[j].uuid = added_saves[i].uuid}) = 1
            /\ FilesOfSave(added_saves[i].uuid) = <<>>
    /\ (last.op = "add_reference_to_save" /\ last.fault[1] = "none"
          /\ last.res.tag = "Err") => UuidTaken(DB, last.arg)
    /\ (last.op = "get_reference_to_save_by_path_id" /\ last.fault = "none"
          /\ LastReturned) =>
         \A i \in SeenSaves :
            (added_saves[i].path_id = last.arg /\ added_saves[i].files_hash = <<>>) =>
                /\ IsPresent(last.res)
                /\ \E k \in 1..Len(Unwrap(last.res.val)) :
                      /\ Unwrap(last.res.val)[k].uuid = added_saves[i].uuid
                      /\ Unwrap(last.res.val)[k].files_hash = <<>>

\* The only save of the path was added with no files and is returned.
C6_Witness ==
    /\ last.op = "get_reference_to_save_by_path_id"
    /\ IsPresent(last.res)
    /\ Len(Unwrap(last.res.val)) = 1
    /\ Unwrap(last.res.val)[1].files_hash = <<>>
    /\ \E i \in 1..Len(added_saves) :
          /\ added_saves[i].uuid = Unwrap(last.res.val)[1].uuid
          /\ added_saves[i].files_hash = <<>>

\* C7: not-found is an absent value.  get_game_metadata_by_id on an id that no
\* successful add_game_metadata produced returns absent, and an error only when
\* the storage fails; get_reference_to_save_by_path_id returns absent only when
\* no game_save row has the path id and, when the storage works, whenever none
\* has it.
C7_NotFound ==
    /\ (last.op = "get_game_metadata_by_id" /\ last.arg \notin AddedGameIds) =>
         \/ IsAbsent(last.res)
         \/ last.res.tag = "Err" /\ last.fault # "none"
    /\ last.op = "get_reference_to_save_by_path_id" =>
         LET zero == \A j \in 1..Len(game_save) : game_save[j].path_id # last.arg
         IN /\ IsAbsent(last.res) => zero
            /\ zero => \/ IsAbsent(last.res)
                       \/ last.res.tag = "Err" /\ last.fault # "none"
            /\ (last.fault = "none" /\ LastReturned) => last.res.tag = "Ok"

\* An id that was never inserted is looked up in a catalog that holds a game.
C7_Witness ==
    /\ last.op = "get_game_metadata_by_id"
    /\ last.fault = "none"
    /\ last.arg \notin AddedGameIds
    /\ IsAbsent(last.res)
    /\ Len(game_metadata) = 1

\* C8: OS scoping.  get_paths_by_game_id_and_os(g, os) and
\* get_executable_by_game_id_and_os(g, os) return each location as many times
\* as there are rows of game g and operating system os with it, so nothing of
\* another game or another OS.
C8_OsScoping ==
    /\ (last.op = "get_paths_by_game_id_and_os" /\ last.res.tag = "Ok") =>
         \A loc \in Locations \cup SeqToSet(last.res.val) :
            CountIn(last.res.val, loc) =
                Cardinality({i \in 1..Len(game_path) :
                    /\ game_path[i].path = loc
                    /\ game_path[i].game_metadata_id = last.arg[1]
                    /\ game_path[i].operating_system = last.arg[2]})
    /\ (last.op = "get_executable_by_game_id_and_os" /\ last.res.tag = "Ok") =>
         \A loc \in Locations \cup SeqToSet(last.res.val) :
            CountIn(last.res.val, loc) =
                Cardinality({i \in 1..Len(game_executable) :
                    /\ game_executable[i].executable = loc
                    /\ game_executable[i].game_metadata_id = last.arg[1]
                    /\ game_executable[i].operating_system = last.arg[2]})

\* Game 1 has a Windows path and a Linux path; the Linux query returns the
\* Linux path alone.
C8_Witness ==
    /\ last.op = "get_paths_by_game_id_and_os"
    /\ last.arg = <<1, "Linux">>
    /\ last.res.tag = "Ok"
    /\ Len(last.res.val) = 1
    /\ Len(game_path) = 2
    /\ \A i \in 1..2 : game_path[i].game_metadata_id = 1
    /\ game_path[1].operating_system # game_path[2].operating_system
    /\ game_path[1].path # game_path[2].path

\* C9: referential integrity.  Every game_alt_name, game_path and
\* game_executable row refers to the id of a game_metadata row.
C9_ReferentialIntegrity ==
    /\ \A j \in 1..Len(game_alt_name) :
         game_alt_name[j].game_metadata_id \in RowIds(game_metadata)
    /\ \A j \in 1..Len(game_path) :
         game_path[j].game_metadata_id \in RowIds(game_metadata)
    /\ \A j \in 1..Len(game_executable) :
         game_executable[j].game_metadata_id \in RowIds(game_metadata)

\* C10: a duplicate uuid is an error and not an overwrite.  A call of
\* add_reference_to_save with the uuid of an existing game_save row returns an
\* error and leaves every table as it was.
C10_DuplicateUuid ==
    [][(last'.op = "add_reference_to_save" /\ UuidTaken(DB, last'.arg)) =>
          (last'.res.tag = "Err" /\ UNCHANGED tables)]_vars

\* A call the storage did not fail was refused for its uuid.
C10_Witness ==
    /\ last.op = "add_reference_to_save"
    /\ last.fault[1] = "none"
    /\ last.res.tag = "Err"
    /\ UuidTaken(DB, last.arg)

\* C16: get_game_metadata_by_name(name) returns exactly the games whose default
\* name is name among those committed when it loaded the rows, each once, with
\* its id and all the alt-names of its creation;
\* when the storage works the call succeeds, with the empty sequence when no
\* default name matches; a game that has name only as an alt-name is not
\* returned.
C16_ByDefaultName ==
    last.op = "get_game_metadata_by_name" =>
        LET mine == {i \in SeenGames :
                        added_games[i].metadata.default_name = last.arg}
        IN /\ (last.fault = "none" /\ LastReturned) => last.res.tag = "Ok"
           /\ last.res.tag = "Ok" =>
                /\ Len(last.res.val) = Cardinality(mine)
                /\ \A i \in mine : \E k \in 1..Len(last.res.val) :
                      /\ last.res.val[k].id = Some(added_games[i].id)
                      /\ last.res.val[k].metadata.default_name = last.arg
                      /\ SameBag(last.res.val[k].metadata.known_name,
                                 added_games[i].metadata.known_name)
                /\ \A k \in 1..Len(last.res.val) :
                      \E i \in mine : last.res.val[k].id = Some(added_games[i].id)

\* Two games are stored; the query for "F" returns the game named "F" and not
\* the game that has "F" as an alt-name only.
C16_Witness ==
    /\ last.op = "get_game_metadata_by_name"
    /\ last.arg = "F"
    /\ last.res.tag = "Ok"
    /\ Len(last.res.val) = 1
    /\ Len(added_games) = 2
    /\ \E i \in 1..Len(added_games) :
          /\ added_games[i].metadata.default_name # "F"
          /\ "F" \in SeqToSet(added_games[i].metadata.known_name)

\* C18: get_game_metadata_by_id never returns a present record without an id:
\* a present result carries an id, and that id is the requested one.
C18_PresentHasRequestedId ==
    (last.op = "get_game_metadata_by_id" /\ IsPresent(last.res)) =>
        /\ IsSome(Unwrap(last.res.val).id)
        /\ Unwrap(last.res.val).id = Some(last.arg)

\* The first of two stored games is found by its id.
C18_Witness ==
    /\ last.op = "get_game_metadata_by_id"
    /\ last.arg = 1
    /\ IsPresent(last.res)
    /\ Len(game_metadata) = 2

\* C19: every game_metadata row has an id, no two rows have the same id, and
\* the unwrap of a row's id in get_game_metadata_by_name and get_games_metadata
\* never panics.
C19_IdsAssigned ==
    /\ \A i \in 1..Len(game_metadata) : IsSome(game_metadata[i].id)
    /\ \A i, j \in 1..Len(game_metadata) :
          game_metadata[i].id = game_metadata[j].id => i = j
    /\ last.res.tag # "Panic"

\* get_games_metadata unwrapped the ids of two rows.
C19_Witness ==
    /\ last.op = "get_games_metadata"
    /\ last.res.tag = "Ok"
    /\ Len(last.res.val) = 2
    /\ last.res.val[1].id # last.res.val[2].id

IsPrefix(s, t) == Len(s) <= Len(t) /\ SubSeq(t, 1, Len(s)) = s
GetOps == {"get_game_metadata_by_name", "get_game_metadata_by_id",
           "get_games_metadata", "get_paths_by_game_id_and_os",
           "get_paths_by_game_id", "get_executable_by_game_id_and_os",
           "get_executable_by_game_id", "get_reference_to_save_by_path_id"}

\* C15: the catalog is append-only.  Every call leaves the rows of every table
\* in place and unmodified, adding rows after them at most; every statement of
\* a Get* method leaves all six tables as they were (the tables change during
\* a listing call only by another caller's add, which adds to the tables of
\* one method); add_game_metadata adds to game_metadata
\* and game_alt_name only, add_game_path to game_path only,
\* add_game_executable to game_executable only, add_reference_to_save to
\* game_save and file_hash only.
C15_AppendOnly ==
    [][/\ IsPrefix(game_metadata, game_metadata')
       /\ IsPrefix(game_alt_name, game_alt_name')
       /\ IsPrefix(game_path, game_path')
       /\ IsPrefix(game_executable, game_executable')
       /\ IsPrefix(game_save, game_save')
       /\ IsPrefix(file_hash, file_hash')
       /\ last'.op \in GetOps =>
             IF Reading /\ Reading' /\ last'.res.val.i = last.res.val.i
             THEN \/ UNCHANGED <<game_path, game_executable, game_save, file_hash>>
                  \/ UNCHANGED <<game_metadata, game_alt_name, game_executable,
                                 game_save, file_hash>>
                  \/ UNCHANGED <<game_metadata, game_alt_name, game_path,
                                 game_save, file_hash>>
                  \/ UNCHANGED <<game_metadata, game_alt_name, game_path,
                                 game_executable>>
             ELSE UNCHANGED tables
       /\ last'.op = "add_game_metadata" =>
             UNCHANGED <<game_path, game_executable, game_save, file_hash>>
       /\ last'.op = "add_game_path" =>
             UNCHANGED <<game_metadata, game_alt_name, game_executable,
                         game_save, file_hash>>
       /\ last'.op = "add_game_executable" =>
             UNCHANGED <<game_metadata, game_alt_name, game_path,
                         game_save, file_hash>>
       /\ last'.op = "add_reference_to_save" =>
             UNCHANGED <<game_metadata, game_alt_name, game_path,
                         game_executable>>]_vars

\* A second save path was added to a store that holds a game, a path of the
\* same game and operating system, and a save.
C15_Witness ==
    /\ last.op = "add_game_path"
    /\ last.res.tag = "Ok"
    /\ Len(game_path) = 2
    /\ game_path[2].game_metadata_id = game_path[1].game_metadata_id
    /\ game_path[2].operating_system = game_path[1].operating_system
    /\ game_metadata # <<>>
    /\ game_save # <<>>

\* C17: startup is idempotent.  new returns a handle only after every
\* migration is applied; new on a location where every migration is applied
\* runs none, leaves the applied migrations and the stored rows as they were,
\* and succeeds unless the pool, the connection or the bookkeeping of the
\* applied versions fails; new never removes a migration or a row.
C17_StartupIdempotent ==
    [][/\ opened' => applied' = Migrations
       /\ last'.op = "new" =>
            /\ last'.res.tag = "Ok" => applied' = Migrations
            /\ applied \subseteq applied'
            /\ UNCHANGED tables
            /\ applied = Migrations =>
                  /\ UNCHANGED applied
                  /\ last'.fault \notin {"pool", "connection", "versions"} =>
                        last'.res.tag = "Ok"]_vars

\* new succeeded again on a store that received an executable since it was
\* first opened.
C17_Witness ==
    /\ last.op = "new"
    /\ last.res.tag = "Ok"
    /\ last.fault = "migration"
    /\ opened
    /\ game_executable # <<>>

Returned(p, ops) == calls[p].pc = "done" /\ calls[p].op \in ops

\* C11: under any interleaving of concurrent add_game_metadata calls, the id
\* a call reads back is the id of the row it inserted itself, and the alias
\* rows it writes refer to that row: the committed alias rows of each added
\* game are the alt-names of the call that added it.
C11_OwnInsertedId ==
    /\ \A p \in Callers :
         (calls[p].op = "add_game_metadata"
            /\ calls[p].pc \in {"insert_alt_name", "commit"}) =>
                calls[p].acc = calls[p].own
    /\ \A i \in 1..Len(added_games) :
         SelectAltNames(DB, added_games[i].id) = added_games[i].metadata.known_name
    /\ \A j \in 1..Len(game_alt_name) :
         game_alt_name[j].game_metadata_id \in AddedGameIds

\* A caller has read back its id inside its transaction while the other
\* caller, with a connection of its own, is about to begin the same method.
C11_Witness ==
    \E p, q \in Callers :
        /\ calls[p].op = "add_game_metadata" /\ calls[p].pc = "insert_alt_name"
        /\ calls[q].op = "add_game_metadata" /\ calls[q].pc = "begin"

\* C12: no caller observes a partially committed save.  Every SaveReference
\* returned by get_reference_to_save_by_path_id, whatever ran between its two
\* reads, is the save of a call that committed and carries all the file
\* hashes of that call; a save of a transaction that was rolled back or has
\* not committed is not returned.
C12_NoPartialSave ==
    \A p \in Callers :
        (Returned(p, {"get_reference_to_save_by_path_id"}) /\ IsPresent(calls[p].res)) =>
            LET refs == Unwrap(calls[p].res.val)
            IN \A k \in 1..Len(refs) :
                 \E i \in 1..Len(added_saves) :
                    /\ added_saves[i].uuid = refs[k].uuid
                    /\ SameBag(refs[k].files_hash, added_saves[i].files_hash)

\* The save "abc" is returned with its two files while the other caller is
\* inside the transaction of another save, one file inserted.
C12_Witness ==
    \E p, q \in Callers :
        /\ Returned(p, {"get_reference_to_save_by_path_id"})
        /\ IsPresent(calls[p].res)
        /\ Len(Unwrap(calls[p].res.val)) = 1
        /\ Len(Unwrap(calls[p].res.val)[1].files_hash) = 2
        /\ calls[q].op = "add_reference_to_save"
        /\ calls[q].pc = "commit"

\* C13: every GameMetadata returned by get_game_metadata_by_id,
\* get_game_metadata_by_name and get_games_metadata, whatever ran between the
\* reads of the call, is a game of a committed add_game_metadata and carries
\* all the alt-names of that call.
C13_CompleteAliasSet ==
    \A p \in Callers :
        /\ (Returned(p, {"get_game_metadata_by_id"}) /\ IsPresent(calls[p].res)) =>
             \E i \in 1..Len(added_games) :
                /\ Unwrap(calls[p].res.val).id = Some(added_games[i].id)
                /\ SameBag(Unwrap(calls[p].res.val).metadata.known_name,
                           added_games[i].metadata.known_name)
        /\ (Returned(p, {"get_game_metadata_by_name", "get_games_metadata"})
              /\ calls[p].res.tag = "Ok") =>
             \A k \in 1..Len(calls[p].res.val) :
                \E i \in 1..Len(added_games) :
                   /\ calls[p].res.val[k].id = Some(added_games[i].id)
                   /\ SameBag(calls[p].res.val[k].metadata.known_name,
                              added_games[i].metadata.known_name)

\* get_games_metadata returns the one committed game with its alt-name while
\* the other caller has inserted a second game in its transaction and not yet
\* the alt-names.
C13_Witness ==
    \E p, q \in Callers :
        /\ Returned(p, {"get_games_metadata"})
        /\ calls[p].res.tag = "Ok"
        /\ Len(calls[p].res.val) = 1
        /\ calls[p].res.val[1].metadata.known_name # <<>>
        /\ calls[q].op = "add_game_metadata"
        /\ calls[q].pc = "insert_alt_name"

\* C14: connection release.  A call holds exactly one connection of the pool
\* from its pool.get to its return and none before or after, on every exit
\* path; the connections held and the idle connections add up to the pool,
\* so the pool is whole whenever no call is in progress.
C14_ConnectionRelease ==
    /\ \A p \in Callers :
         calls[p].held = IF calls[p].pc \in {"idle", "get", "done"} THEN 0 ELSE 1
    /\ pool.idle + Cardinality({p \in Callers : calls[p].held = 1}) = pool.max_size
    /\ (\A p \in Callers : calls[p].pc \in {"idle", "done"}) =>
          pool.idle = pool.max_size

\* Both callers have returned, one with an absent game from inside its
\* transaction and one with an error of the storage from inside its own, and
\* a game was committed before; both connections are back in the pool.
C14_Witness ==
    \E p, q \in Callers :
        /\ Returned(p, {"get_game_metadata_by_id"})
        /\ IsAbsent(calls[p].res)
        /\ Returned(q, {"add_game_metadata"})
        /\ calls[q].res = StorageError
        /\ Len(game_metadata) = 1
        /\ pool.max_size = 2
        /\ pool.idle = 2

\* C20: a call never holds more than one connection, and only the caller that
\* began a transaction holds the write lock; when every thread inside a call
\* keeps running, every call that was started returns a result or an error.
C20_EveryCallReturns ==
    /\ [](\A p \in Callers :
            /\ calls[p].held <= 1
            /\ write_lock = Some(p) => calls[p].txn # None)
    /\ \A p \in Callers : (calls[p].pc = "get") ~> (calls[p].pc = "done")

\* A caller got the pool's error while the other caller, inside
\* get_game_metadata_by_id with the write lock, held the only connection.
C20_Witness ==
    \E p, q \in Callers :
        /\ calls[p].pc = "done"
        /\ calls[p].res.tag = "Err"
        /\ calls[p].res.val = "ConnectionError"
        /\ pool.max_size = 1
        /\ calls[q].op = "get_game_metadata_by_id"
        /\ calls[q].pc = "select_metadata"
        /\ write_lock = Some(q)

====
